---------------------------- MODULE Spec2Model ----------------------------
(***************************************************************************)
(* Model of benchbot_robot_controller/src/robot_callbacks.py: the pose     *)
(* estimator, the drive-to-pose and orientation-only servo loops, the      *)
(* trajectory cursor and the move callbacks.                               *)
(*                                                                         *)
(* Numbers.  The source works in floating point; the model works in fixed  *)
(* point.  Lengths are integers in millimetres (1.0 length unit = 1000),   *)
(* angles are integers in degrees, a linear speed is in 1/10 mm/s and an   *)
(* angular rate in 1/10 deg/s, so that the gains 0.7, 7.5 and -3 are the   *)
(* integers 7, 75 and -30.  A pose is planar, <<x, y, q>>, with x, y the   *)
(* translation and q in 0..3 the heading in quarter turns: rotations by    *)
(* multiples of 90 degrees are exactly the ones that keep integer          *)
(* translations integer under matrix multiplication and inversion.         *)
(***************************************************************************)
EXTENDS Integers, Sequences, FiniteSets, TLC

(***************************************************************************)
(* Program constants (robot_callbacks.py lines 9-20).                      *)
(***************************************************************************)
DEFAULT_SPEED_FACTOR == 1
MOVE_HZ == 20
\* 0.01 length units, in millimetres
MOVE_TOL_DIST == 10
\* np.deg2rad(1), in degrees
MOVE_TOL_YAW == 1
MOVE_ANGLE_K == 3
\* 0.7, 7.5 and -3, in tenths
MOVE_POSE_K_RHO == 7
MOVE_POSE_K_ALPHA == 75
MOVE_POSE_K_BETA == -30

(***************************************************************************)
(* Bounds of the model.                                                    *)
(***************************************************************************)
\* control-loop ticks one move may take before the model stops following it
MaxTicks == 2
\* length of the configured trajectory
MaxWaypoints == 2
\* control-loop ticks a move is followed for when the robot obeys its commands
MaxFollowTicks == 140
\* number of ranges in a laser scan
MaxRanges == 2

(***************************************************************************)
(* Angles and arctan2 in integer degrees.                                  *)
(***************************************************************************)
Abs(n) == IF n < 0 THEN -n ELSE n

\* pi_wrap with the interval closed at pi instead of at -pi
pi_wrap_closed_above(angle) == 180 - ((180 - angle) % 360)

\* __pi_wrap: np.mod(angle + pi, 2 pi) - pi; np.mod takes the divisor's sign,
\* as % does for a positive divisor.
pi_wrap(angle) == ((angle + 180) % 360) - 180

\* arctan of n/d for 0 <= n <= d, d > 0, rounded to a degree, with t = n/d in
\* thousandths: 45 t + 15.64 t (1 - t), which is within a quarter degree of arctan.
AtanDeg(n, d) ==
    LET t == (1000 * n) \div d
    IN  (45000 * t + (1564 * t * (1000 - t)) \div 100 + 500000) \div 1000000

\* np.arctan2(y, x) in degrees, in (-180, 180]; arctan2(0, 0) = 0.
Arctan2FirstQuadrant(y, x) ==
    IF x = 0 /\ y = 0 THEN 0
    ELSE IF y <= x THEN AtanDeg(y, x) ELSE 90 - AtanDeg(x, y)

arctan2(y, x) ==
    IF x >= 0 /\ y >= 0 THEN Arctan2FirstQuadrant(y, x)
    ELSE IF x < 0 /\ y >= 0 THEN 180 - Arctan2FirstQuadrant(y, -x)
    ELSE IF x < 0 /\ y < 0 THEN Arctan2FirstQuadrant(-y, -x) - 180
    ELSE -Arctan2FirstQuadrant(-y, x)

\* floor of the square root, by bisection on [lo, hi)
RECURSIVE SqrtBetween(_, _, _)
SqrtBetween(n, lo, hi) ==
    IF hi - lo <= 1 THEN lo
    ELSE LET mid == (lo + hi) \div 2
         IN  IF mid * mid <= n THEN SqrtBetween(n, mid, hi)
             ELSE SqrtBetween(n, lo, mid)

\* np.linalg.norm of a 2-vector, rounded down to a millimetre
norm2(dx, dy) == SqrtBetween(dx * dx + dy * dy, 0, Abs(dx) + Abs(dy) + 1)

(***************************************************************************)
(* Pose algebra on <<x, y, q>>.                                            *)
(***************************************************************************)
\* the rotation block applied to a vector: q quarter turns counter-clockwise
RotX(q, x, y) == CASE q = 0 -> x [] q = 1 -> -y [] q = 2 -> -x [] q = 3 -> y
RotY(q, x, y) == CASE q = 0 -> y [] q = 1 -> x [] q = 2 -> -y [] q = 3 -> -x

\* np.matmul(matrix_a, matrix_b)
matmul(a, b) ==
    << a[1] + RotX(a[3], b[1], b[2]), a[2] + RotY(a[3], b[1], b[2]), (a[3] + b[3]) % 4 >>

\* np.linalg.inv(matrix_a)
inv(a) ==
    LET q == (4 - a[3]) % 4
    IN  << -RotX(q, a[1], a[2]), -RotY(q, a[1], a[2]), q >>

\* __tr_b_wrt_a
tr_b_wrt_a(matrix_a, matrix_b) == matmul(inv(matrix_a), matrix_b)

\* euler angle of the rotation block, in degrees, in (-180, 180]
EulerZ(q) == CASE q = 0 -> 0 [] q = 1 -> 90 [] q = 2 -> 180 [] q = 3 -> -90

\* __yaw
yaw(matrix) == EulerZ(matrix[3])

\* __yaw_b_wrt_a
yaw_b_wrt_a(matrix_a, matrix_b) == EulerZ(tr_b_wrt_a(matrix_a, matrix_b)[3])

\* __ang_to_b
ang_to_b(matrix_a, matrix_b) ==
    arctan2(matrix_b[2] - matrix_a[2], matrix_b[1] - matrix_a[1])

\* __ang_to_b_wrt_a
ang_to_b_wrt_a(matrix_a, matrix_b) ==
    LET diff == tr_b_wrt_a(matrix_a, matrix_b)
    IN  arctan2(diff[2], diff[1])

\* __dist_from_a_to_b
dist_from_a_to_b(matrix_a, matrix_b) ==
    LET diff == tr_b_wrt_a(matrix_a, matrix_b)
    IN  norm2(diff[1], diff[2])

\* Rot.from_euler('XYZ', [0, 0, yaw]) for a yaw of a whole number of quarter
\* turns (the only rotations the model's callers ask for)
QuarterTurns(deg) == (deg % 360) \div 90

\* __transrpy_to_tf_matrix(trans, [0, 0, yaw])
transrpy_to_tf_matrix(trans, yawdeg) == << trans[1], trans[2], QuarterTurns(yawdeg) >>

\* A pose vector is <<qx, qy, qz, qw, X, Y, Z>> with the unit quaternion in
\* units of 1/100.  Rot.from_quat(...).as_dcm() of a planar rotation has
\* heading arctan2(2 (w z + x y), 1 - 2 (y y + z z)).
pose_vector_to_tf_matrix(pv) ==
    LET s == 2 * (pv[4] * pv[3] + pv[1] * pv[2])
        c == 10000 - 2 * (pv[2] * pv[2] + pv[3] * pv[3])
    IN  << pv[5], pv[6], QuarterTurns(((arctan2(s, c) + 45) \div 90) * 90) >>

\* np.take(v, idx) with 0-based indices
take(v, idx) == [i \in 1..Len(idx) |-> v[idx[i] + 1]]

\* __safe_dict_get
safe_dict_get(d, key, default) == IF key \in DOMAIN d THEN d[key] ELSE default

(***************************************************************************)
(* The world outside the module: frames, the tf tree, the configuration.   *)
(***************************************************************************)
Hosts == {"h1", "h2"}

NoPose == << >>
EmptyDict == [k \in {} |-> 0]

\* poses the robot may be reported at in the global frame and in the odometry
\* frame
MapPoses == { <<0, 0, 0>>, <<1000, 0, 0>>, <<1000, 0, 1>> }
OdomPoses == { <<0, 0, 0>>, <<1000, 0, 0>> }
FramePoses(frame) == IF frame = "map" THEN MapPoses ELSE OdomPoses

\* where the camera sits on the robot
CameraMount == <<100, 0, 0>>

\* trajectory pose i as the configuration stores it, <<qw, qx, qy, qz, X, Y, Z>>:
\* i metres ahead, facing backwards when i is even
Waypoint(i) ==
    IF i % 2 = 0 THEN <<0, 0, 0, 100, 1000 * i, 0, 0>>
    ELSE <<100, 0, 0, 0, 1000 * i, 0, 0>>

Trajectory(n) == [i \in 1..n |-> Waypoint(i)]

RobotConfig ==
    ("global_frame" :> "map") @@ ("robot_frame" :> "base_link")
        @@ ("poses" :> <<"initial_pose", "left_camera">>)

\* task_name is config['task']['name'] as its words, localisation is
\* config['task']['localisation'], robot is config['robot'], and trajectory_poses
\* is config['environments'][state['selected_environment']]['trajectory_poses']
Config(nm, loc, rb, n) ==
    [task_name |-> nm, localisation |-> loc, robot |-> rb, trajectory_poses |-> Trajectory(n)]

Configs ==
    { Config(<<"semantic_slam", "active", "ground_truth">>, "ground_truth",
             ("speed_factor" :> 2) @@ RobotConfig, MaxWaypoints),
      Config(<<"semantic_slam", "active", "dead_reckoning">>, "noisy",
             RobotConfig, MaxWaypoints),
      Config(<<"semantic_slam", "active", "dead_reckoning">>, "noisy",
             RobotConfig, 0) }

\* what the callbacks are called with
AngleData == { "angle" :> 90, EmptyDict }
DistanceData == { "distance" :> 1000, "distance" :> -1000 }

\* what the collaborators answer during one step of a callback: is_dirty(),
\* is_collided(), and whether the capture lookup and the pose lookup succeed
Answers == [dirty : BOOLEAN, collided : BOOLEAN, ok_capture : BOOLEAN, ok_pose : BOOLEAN]

\* a callback step outside the loops does not ask is_collided(); a loop pass
\* that finds is_collided() true asks nothing else
PoseAnswers == { a \in Answers : ~a.collided }
TickAnswers == { a \in Answers : a.collided => (a.dirty /\ a.ok_capture /\ a.ok_pose) }

VARIABLES
    config,     \* controller.config
    state,      \* controller.state, a dict
    tf,         \* the tf tree: pose of the robot frame in "map" and in "odom"
    hosts,      \* the host threads that issue callbacks
    pc,         \* where each host's callback stands
    op,         \* the callback each host runs, or ran last
    goal,       \* the goal of the host's _move_to_pose
    npub,       \* how many Twists the host's move has published
    last,       \* the last Twist the host's move has published
    ticks,      \* is_collided() samples the host's move has taken
    nlook,      \* lookup_transform calls the host's callback has made
    stopped,    \* the host's move sampled is_collided() true
    ret,        \* how the host's last callback ended
    robot       \* the robot base: whether it obeys the commands, the part of its
                \* position below a millimetre, and the commands it has obeyed

vars == << config, state, tf, hosts, pc, op, goal, npub, last, ticks, nlook, stopped, ret,
           robot >>

\* the robot base as the tf tree alone reports it (anywhere, at any time), and
\* as a base that obeys the velocity commands of the move
Reported == [follows |-> FALSE, frac |-> 0, applied |-> 0]
Following == [follows |-> TRUE, frac |-> 0, applied |-> 0]

\* passes of a loop the model follows before it stops following the move
TickCap == IF robot.follows THEN MaxFollowTicks ELSE MaxTicks

Twist(lin, ang) == [linear_x |-> lin, angular_z |-> ang]
ZeroTwist == Twist(0, 0)

\* how a callback ended: kind is "none" (never called), "running", "returned"
\* or "raised"; exc is the exception raised; val is "None" when the callback
\* returned Python's None and "value" when it returned out; logerr is whether
\* rospy.logerr was called
NotCalled == [kind |-> "none", exc |-> "none", val |-> "None", out |-> NoPose, logerr |-> FALSE]
Running == [kind |-> "running", exc |-> "none", val |-> "None", out |-> NoPose, logerr |-> FALSE]
ReturnedNone(logged) ==
    [kind |-> "returned", exc |-> "none", val |-> "None", out |-> NoPose, logerr |-> logged]
Returned(v) == [kind |-> "returned", exc |-> "none", val |-> "value", out |-> v, logerr |-> FALSE]
Raised(e) == [kind |-> "raised", exc |-> e, val |-> "None", out |-> NoPose, logerr |-> FALSE]

(***************************************************************************)
(* Pose estimator.  Each operator returns err ("none" or the exception),    *)
(* the value, the session state it leaves and the lookups it made.          *)
(***************************************************************************)
\* 'ground_truth' in controller.config['task']['name']
InName(word, name) == \E i \in 1..Len(name) : name[i] = word

\* controller.tf_buffer.lookup_transform(parent, child, rospy.Time()), through
\* tf_msg_to_SE2
lookup_transform(tfv, parent, child, ok) ==
    IF ~ok \/ parent \notin DOMAIN tfv
    THEN [err |-> "LookupException", val |-> NoPose]
    ELSE [err |-> "none",
          val |-> IF child = "left_camera" THEN matmul(tfv[parent], CameraMount)
                  ELSE tfv[parent]]

\* define_initial_pose without the test for an already captured pose
define_initial_pose_recapture(cfg, st, tfv, ans) ==
    IF ans.dirty
    THEN [err |-> "none", st |-> st, n |-> 0]
    ELSE LET r == lookup_transform(tfv, cfg.robot["global_frame"],
                                   cfg.robot["robot_frame"], ans.ok_capture)
         IN  IF r.err # "none"
             THEN [err |-> r.err, st |-> st, n |-> 1]
             ELSE [err |-> "none", st |-> ("initial_pose_tf_mat" :> r.val) @@ st, n |-> 1]

define_initial_pose(cfg, st, tfv, ans) ==
    IF ans.dirty \/ "initial_pose_tf_mat" \in DOMAIN st
    THEN [err |-> "none", st |-> st, n |-> 0]
    ELSE IF "global_frame" \notin DOMAIN cfg.robot
    THEN [err |-> "KeyError: global_frame", st |-> st, n |-> 0]
    ELSE IF "robot_frame" \notin DOMAIN cfg.robot
    THEN [err |-> "KeyError: robot_frame", st |-> st, n |-> 0]
    ELSE LET r == lookup_transform(tfv, cfg.robot["global_frame"],
                                   cfg.robot["robot_frame"], ans.ok_capture)
         IN  IF r.err # "none"
             THEN [err |-> r.err, st |-> st, n |-> 1]
             ELSE [err |-> "none", st |-> ("initial_pose_tf_mat" :> r.val) @@ st, n |-> 1]

\* get_noisy_pose with the product taken the other way round
get_noisy_pose_swapped(st, tfv, child_frame, ok) ==
    IF "initial_pose_tf_mat" \notin DOMAIN st
    THEN [err |-> "KeyError: initial_pose_tf_mat", val |-> NoPose, n |-> 0]
    ELSE LET r == lookup_transform(tfv, "odom", child_frame, ok)
         IN  IF r.err # "none"
             THEN [err |-> r.err, val |-> NoPose, n |-> 1]
             ELSE [err |-> "none", val |-> matmul(r.val, st["initial_pose_tf_mat"]), n |-> 1]

get_noisy_pose(st, tfv, child_frame, ok) ==
    IF "initial_pose_tf_mat" \notin DOMAIN st
    THEN [err |-> "KeyError: initial_pose_tf_mat", val |-> NoPose, n |-> 0]
    ELSE LET r == lookup_transform(tfv, "odom", child_frame, ok)
         IN  IF r.err # "none"
             THEN [err |-> r.err, val |-> NoPose, n |-> 1]
             ELSE [err |-> "none", val |-> matmul(st["initial_pose_tf_mat"], r.val), n |-> 1]

current_pose(cfg, st, tfv, ans) ==
    LET d == define_initial_pose(cfg, st, tfv, ans)
    IN  IF d.err # "none"
        THEN [err |-> d.err, val |-> NoPose, st |-> d.st, n |-> d.n]
        ELSE IF InName("ground_truth", cfg.task_name)
        THEN IF "global_frame" \notin DOMAIN cfg.robot
             THEN [err |-> "KeyError: global_frame", val |-> NoPose, st |-> d.st, n |-> d.n]
             ELSE IF "robot_frame" \notin DOMAIN cfg.robot
             THEN [err |-> "KeyError: robot_frame", val |-> NoPose, st |-> d.st, n |-> d.n]
             ELSE LET r == lookup_transform(tfv, cfg.robot["global_frame"],
                                            cfg.robot["robot_frame"], ans.ok_pose)
                  IN  [err |-> r.err, val |-> r.val, st |-> d.st, n |-> d.n + 1]
        ELSE IF "robot_frame" \notin DOMAIN cfg.robot
        THEN [err |-> "KeyError: robot_frame", val |-> NoPose, st |-> d.st, n |-> d.n]
        ELSE LET r == get_noisy_pose(d.st, tfv, cfg.robot["robot_frame"], ans.ok_pose)
             IN  [err |-> r.err, val |-> r.val, st |-> d.st, n |-> d.n + r.n]

move_speed_factor(cfg) ==
    IF "speed_factor" \in DOMAIN cfg.robot THEN cfg.robot["speed_factor"]
    ELSE DEFAULT_SPEED_FACTOR

(***************************************************************************)
(* Initial states.                                                         *)
(***************************************************************************)
\* the controller as constructed, with one of the configurations cfgs and the
\* host threads hs
Start(cfgs, hs) ==
    /\ config \in cfgs
    /\ state = EmptyDict
    /\ tf \in { f \in [{"map", "odom"} -> MapPoses \cup OdomPoses] :
                    \A frame \in DOMAIN f : f[frame] \in FramePoses(frame) }
    /\ hosts = hs
    /\ pc = [h \in Hosts |-> "idle"]
    /\ op = [h \in Hosts |-> "none"]
    /\ goal = [h \in Hosts |-> NoPose]
    /\ npub = [h \in Hosts |-> 0]
    /\ last = [h \in Hosts |-> ZeroTwist]
    /\ ticks = [h \in Hosts |-> 0]
    /\ nlook = [h \in Hosts |-> 0]
    /\ stopped = [h \in Hosts |-> FALSE]
    /\ ret = [h \in Hosts |-> NotCalled]

InitWith(hs) == Start(Configs, hs) /\ robot = Reported

\* one synchronous caller
Init == InitWith({"h1"})

(***************************************************************************)
(* Steps shared by the callbacks.                                          *)
(***************************************************************************)
\* publisher.publish(msg) by host h
Publish(h, msg) ==
    /\ npub' = [npub EXCEPT ![h] = @ + 1]
    /\ last' = [last EXCEPT ![h] = msg]

\* host h enters callback o; the callback has made n lookups so far
Enter(h, o, n) ==
    /\ op' = [op EXCEPT ![h] = o]
    /\ npub' = [npub EXCEPT ![h] = 0]
    /\ last' = [last EXCEPT ![h] = ZeroTwist]
    /\ ticks' = [ticks EXCEPT ![h] = 0]
    /\ nlook' = [nlook EXCEPT ![h] = n]
    /\ stopped' = [stopped EXCEPT ![h] = FALSE]

\* the callback of host h ends with r
Leave(h, r) ==
    /\ pc' = [pc EXCEPT ![h] = "idle"]
    /\ ret' = [ret EXCEPT ![h] = r]

\* the callback of host h goes on into _move_to_pose(g, ...)
Servo(h, g) ==
    /\ pc' = [pc EXCEPT ![h] = "move_to_pose"]
    /\ goal' = [goal EXCEPT ![h] = g]
    /\ ret' = [ret EXCEPT ![h] = Running]

\* a callback whose first statement is _current_pose and whose goal is the
\* current pose times `relative`
MoveRelative(h, o, relative, ans) ==
    /\ h \in hosts
    /\ pc[h] = "idle"
    /\ LET r == current_pose(config, state, tf, ans)
       IN  /\ Enter(h, o, r.n)
           /\ state' = r.st
           /\ IF r.err # "none"
              THEN Leave(h, Raised(r.err)) /\ goal' = [goal EXCEPT ![h] = NoPose]
              ELSE Servo(h, matmul(r.val, relative))
    /\ UNCHANGED << config, robot, tf, hosts >>

\* move_angle(data, publisher, controller)
move_angle(h, data, ans) ==
    MoveRelative(h, "move_angle",
                 transrpy_to_tf_matrix(<<0, 0, 0>>, pi_wrap(safe_dict_get(data, "angle", 0))),
                 ans)

\* move_distance(data, publisher, controller)
move_distance(h, data, ans) ==
    MoveRelative(h, "move_distance",
                 transrpy_to_tf_matrix(<<safe_dict_get(data, "distance", 0), 0, 0>>, 0),
                 ans)

(***************************************************************************)
(* The servo loops.                                                        *)
(***************************************************************************)
\* drive_law without the test for a goal behind the robot
drive_law_forward_only(cfg, current, g) ==
    LET rho == dist_from_a_to_b(current, g)
        alpha == pi_wrap(ang_to_b(current, g) - yaw(current))
        beta == pi_wrap(yaw(g) - ang_to_b(current, g))
    IN  [rho |-> rho, alpha |-> alpha, beta |-> beta, backwards |-> FALSE,
         vel_msg |-> Twist(move_speed_factor(cfg) * MOVE_POSE_K_RHO * rho,
                           move_speed_factor(cfg)
                               * (MOVE_POSE_K_ALPHA * alpha + MOVE_POSE_K_BETA * beta))]

\* drive_law with the sign of the linear velocity the wrong way round
drive_law_sign_swapped(cfg, current, g) ==
    LET rho == dist_from_a_to_b(current, g)
        alpha0 == pi_wrap(ang_to_b(current, g) - yaw(current))
        beta0 == pi_wrap(yaw(g) - ang_to_b(current, g))
        backwards == Abs(ang_to_b_wrt_a(current, g)) > 90
        alpha == IF backwards THEN pi_wrap(alpha0 + 180) ELSE alpha0
        beta == IF backwards THEN pi_wrap(beta0 + 180) ELSE beta0
    IN  [rho |-> rho, alpha |-> alpha, beta |-> beta, backwards |-> backwards,
         vel_msg |-> Twist(move_speed_factor(cfg) * (IF backwards THEN 1 ELSE -1)
                               * MOVE_POSE_K_RHO * rho,
                           move_speed_factor(cfg)
                               * (MOVE_POSE_K_ALPHA * alpha + MOVE_POSE_K_BETA * beta))]

\* _move_to_pose lines 189-213: the errors and the Twist of one drive tick
drive_law(cfg, current, g) ==
    LET rho == dist_from_a_to_b(current, g)
        alpha0 == pi_wrap(ang_to_b(current, g) - yaw(current))
        beta0 == pi_wrap(yaw(g) - ang_to_b(current, g))
        backwards == Abs(ang_to_b_wrt_a(current, g)) > 90
        alpha == IF backwards THEN pi_wrap(alpha0 + 180) ELSE alpha0
        beta == IF backwards THEN pi_wrap(beta0 + 180) ELSE beta0
    IN  [rho |-> rho, alpha |-> alpha, beta |-> beta, backwards |-> backwards,
         vel_msg |-> Twist(move_speed_factor(cfg) * (IF backwards THEN -1 ELSE 1)
                               * MOVE_POSE_K_RHO * rho,
                           move_speed_factor(cfg)
                               * (MOVE_POSE_K_ALPHA * alpha + MOVE_POSE_K_BETA * beta))]

\* _move_to_angle lines 163-171: the error and the Twist of one orientation tick
angle_law(cfg, current, g) ==
    LET orientation_error == yaw_b_wrt_a(current, g)
    IN  [orientation_error |-> orientation_error,
         vel_msg |-> Twist(0, move_speed_factor(cfg) * MOVE_ANGLE_K * orientation_error * 10)]

\* move_to_pose_tick with is_collided() tested at the end of the pass instead of
\* at its start (a do-while loop)
move_to_pose_tick_test_last(h, ans) ==
    /\ pc[h] = "move_to_pose"
    /\ ticks' = [ticks EXCEPT ![h] = @ + 1]
    /\ LET r == current_pose(config, state, tf, ans)
       IN  /\ state' = r.st
           /\ nlook' = [nlook EXCEPT ![h] = @ + r.n]
           /\ stopped' = [stopped EXCEPT ![h] = ans.collided /\ r.err = "none"]
           /\ IF r.err # "none"
              THEN Leave(h, Raised(r.err)) /\ UNCHANGED << npub, last >>
              ELSE LET law == drive_law(config, r.val, goal[h])
                   IN  IF law.rho < MOVE_TOL_DIST
                       THEN /\ pc' = [pc EXCEPT ![h] = "move_to_angle"]
                            /\ UNCHANGED << npub, last, ret >>
                       ELSE /\ npub[h] < TickCap
                            /\ Publish(h, law.vel_msg)
                            /\ pc' = [pc EXCEPT ![h] = IF ans.collided THEN "pose_exit" ELSE @]
                            /\ ret' = ret
    /\ UNCHANGED << config, robot, tf, hosts, op, goal >>

\* move_to_pose_tick with a failed lookup caught and the pass repeated
move_to_pose_tick_retry(h, ans) ==
    /\ pc[h] = "move_to_pose"
    /\ ticks' = [ticks EXCEPT ![h] = @ + 1]
    /\ IF ans.collided
       THEN /\ stopped' = [stopped EXCEPT ![h] = TRUE]
            /\ pc' = [pc EXCEPT ![h] = "pose_exit"]
            /\ UNCHANGED << state, nlook, npub, last, ret >>
       ELSE LET r == current_pose(config, state, tf, ans)
            IN  /\ state' = r.st
                /\ nlook' = [nlook EXCEPT ![h] = @ + r.n]
                /\ stopped' = stopped
                /\ IF r.err = "LookupException"
                   THEN UNCHANGED << pc, ret, npub, last >>
                   ELSE IF r.err # "none"
                   THEN Leave(h, Raised(r.err)) /\ UNCHANGED << npub, last >>
                   ELSE LET law == drive_law(config, r.val, goal[h])
                        IN  IF law.rho < MOVE_TOL_DIST
                            THEN /\ pc' = [pc EXCEPT ![h] = "move_to_angle"]
                                 /\ UNCHANGED << npub, last, ret >>
                            ELSE /\ npub[h] < TickCap
                                 /\ Publish(h, law.vel_msg)
                                 /\ UNCHANGED << pc, ret >>
    /\ UNCHANGED << config, robot, tf, hosts, op, goal >>

\* one pass of _move_to_pose's while loop, lines 186-215
move_to_pose_tick(h, ans) ==
    /\ pc[h] = "move_to_pose"
    /\ ticks' = [ticks EXCEPT ![h] = @ + 1]
    /\ IF ans.collided
       THEN /\ stopped' = [stopped EXCEPT ![h] = TRUE]
            /\ pc' = [pc EXCEPT ![h] = "pose_exit"]
            /\ UNCHANGED << state, nlook, npub, last, ret >>
       ELSE LET r == current_pose(config, state, tf, ans)
            IN  /\ state' = r.st
                /\ nlook' = [nlook EXCEPT ![h] = @ + r.n]
                /\ stopped' = stopped
                /\ IF r.err # "none"
                   THEN Leave(h, Raised(r.err)) /\ UNCHANGED << npub, last >>
                   ELSE LET law == drive_law(config, r.val, goal[h])
                        IN  IF law.rho < MOVE_TOL_DIST
                            THEN /\ pc' = [pc EXCEPT ![h] = "move_to_angle"]
                                 /\ UNCHANGED << npub, last, ret >>
                            ELSE /\ npub[h] < TickCap
                                 /\ Publish(h, law.vel_msg)
                                 /\ UNCHANGED << pc, ret >>
    /\ UNCHANGED << config, robot, tf, hosts, op, goal >>

\* move_to_angle_tick with the pose read before is_collided() is tested
move_to_angle_tick_read_first(h, ans) ==
    /\ pc[h] = "move_to_angle"
    /\ ticks' = [ticks EXCEPT ![h] = @ + 1]
    /\ LET r == current_pose(config, state, tf, ans)
       IN  /\ state' = r.st
           /\ nlook' = [nlook EXCEPT ![h] = @ + r.n]
           /\ stopped' = [stopped EXCEPT ![h] = ans.collided /\ r.err = "none"]
           /\ IF r.err # "none"
              THEN Leave(h, Raised(r.err)) /\ UNCHANGED << npub, last >>
              ELSE LET law == angle_law(config, r.val, goal[h])
                   IN  IF ans.collided \/ Abs(law.orientation_error) < MOVE_TOL_YAW
                       THEN /\ pc' = [pc EXCEPT ![h] = "angle_exit"]
                            /\ UNCHANGED << npub, last, ret >>
                       ELSE /\ npub[h] < TickCap
                            /\ Publish(h, law.vel_msg)
                            /\ UNCHANGED << pc, ret >>
    /\ UNCHANGED << config, robot, tf, hosts, op, goal >>

\* one pass of _move_to_angle's while loop, lines 161-173
move_to_angle_tick(h, ans) ==
    /\ pc[h] = "move_to_angle"
    /\ ticks' = [ticks EXCEPT ![h] = @ + 1]
    /\ IF ans.collided
       THEN /\ stopped' = [stopped EXCEPT ![h] = TRUE]
            /\ pc' = [pc EXCEPT ![h] = "angle_exit"]
            /\ UNCHANGED << state, nlook, npub, last, ret >>
       ELSE LET r == current_pose(config, state, tf, ans)
            IN  /\ state' = r.st
                /\ nlook' = [nlook EXCEPT ![h] = @ + r.n]
                /\ stopped' = stopped
                /\ IF r.err # "none"
                   THEN Leave(h, Raised(r.err)) /\ UNCHANGED << npub, last >>
                   ELSE LET law == angle_law(config, r.val, goal[h])
                        IN  IF Abs(law.orientation_error) < MOVE_TOL_YAW
                            THEN /\ pc' = [pc EXCEPT ![h] = "angle_exit"]
                                 /\ UNCHANGED << npub, last, ret >>
                            ELSE /\ npub[h] < TickCap
                                 /\ Publish(h, law.vel_msg)
                                 /\ UNCHANGED << pc, ret >>
    /\ UNCHANGED << config, robot, tf, hosts, op, goal >>

\* move_to_angle_exit without the break of line 207: the drive loop goes on
move_to_angle_exit_no_break(h) ==
    /\ pc[h] = "angle_exit"
    /\ Publish(h, ZeroTwist)
    /\ pc' = [pc EXCEPT ![h] = "move_to_pose"]
    /\ UNCHANGED << config, robot, state, tf, hosts, op, goal, ticks, nlook, stopped, ret >>

\* _move_to_angle line 174, then the break of line 207
move_to_angle_exit(h) ==
    /\ pc[h] = "angle_exit"
    /\ Publish(h, ZeroTwist)
    /\ pc' = [pc EXCEPT ![h] = "pose_exit"]
    /\ UNCHANGED << config, robot, state, tf, hosts, op, goal, ticks, nlook, stopped, ret >>

\* move_to_pose_exit without the publish of line 216
move_to_pose_exit_silent(h) ==
    /\ pc[h] = "pose_exit"
    /\ IF op[h] = "move_next"
       THEN pc' = [pc EXCEPT ![h] = "move_next_register"] /\ ret' = ret
       ELSE Leave(h, ReturnedNone(FALSE))
    /\ UNCHANGED << config, robot, state, tf, hosts, op, goal, npub, last, ticks, nlook, stopped >>

\* move_to_pose_exit where a move ended by the collision signal does not come
\* back into move_next's registering of the goal
move_to_pose_exit_collision_unregistered(h) ==
    /\ pc[h] = "pose_exit"
    /\ Publish(h, ZeroTwist)
    /\ IF op[h] = "move_next" /\ ~stopped[h]
       THEN pc' = [pc EXCEPT ![h] = "move_next_register"] /\ ret' = ret
       ELSE Leave(h, ReturnedNone(FALSE))
    /\ UNCHANGED << config, robot, state, tf, hosts, op, goal, ticks, nlook, stopped >>

\* _move_to_pose line 216, then back in the callback
move_to_pose_exit(h) ==
    /\ pc[h] = "pose_exit"
    /\ Publish(h, ZeroTwist)
    /\ IF op[h] = "move_next"
       THEN pc' = [pc EXCEPT ![h] = "move_next_register"] /\ ret' = ret
       ELSE Leave(h, ReturnedNone(FALSE))
    /\ UNCHANGED << config, robot, state, tf, hosts, op, goal, ticks, nlook, stopped >>

(***************************************************************************)
(* The trajectory cursor.                                                  *)
(***************************************************************************)
\* move_next lines 316-320
trajectory_setup(cfg, st) ==
    IF "trajectory_pose_next" \notin DOMAIN st
    THEN ("trajectory_pose_next" :> 0) @@ ("trajectory_poses" :> cfg.trajectory_poses) @@ st
    ELSE st

\* move_next with an index past the end taken as the last waypoint again
move_next_clamped(h) ==
    /\ h \in hosts
    /\ pc[h] = "idle"
    /\ Enter(h, "move_next", 0)
    /\ LET st == trajectory_setup(config, state)
           n == Len(st["trajectory_poses"])
           i == IF st["trajectory_pose_next"] >= n THEN n - 1 ELSE st["trajectory_pose_next"]
       IN  /\ state' = st
           /\ IF n = 0
              THEN Leave(h, Raised("IndexError")) /\ goal' = [goal EXCEPT ![h] = NoPose]
              ELSE Servo(h, pose_vector_to_tf_matrix(
                                take(st["trajectory_poses"][i + 1], <<1, 2, 3, 0, 4, 5, 6>>)))
    /\ UNCHANGED << config, robot, tf, hosts >>

\* move_next lines 314-328: a list index past the end raises IndexError
move_next(h) ==
    /\ h \in hosts
    /\ pc[h] = "idle"
    /\ Enter(h, "move_next", 0)
    /\ LET st == trajectory_setup(config, state)
           i == st["trajectory_pose_next"]
       IN  /\ state' = st
           /\ IF i >= Len(st["trajectory_poses"])
              THEN Leave(h, Raised("IndexError")) /\ goal' = [goal EXCEPT ![h] = NoPose]
              ELSE Servo(h, pose_vector_to_tf_matrix(
                                take(st["trajectory_poses"][i + 1], <<1, 2, 3, 0, 4, 5, 6>>)))
    /\ UNCHANGED << config, robot, tf, hosts >>

\* move_next_register without the increment of line 331
move_next_register_forgets(h) ==
    /\ pc[h] = "move_next_register"
    /\ Leave(h, ReturnedNone(state["trajectory_pose_next"] >= Len(state["trajectory_poses"])))
    /\ UNCHANGED << config, robot, state, tf, hosts, op, goal, npub, last, ticks, nlook, stopped >>

\* move_next_register that also takes the goal it completed off the list
move_next_register_pops(h) ==
    /\ pc[h] = "move_next_register"
    /\ state' = [state EXCEPT !["trajectory_pose_next"] = @ + 1,
                              !["trajectory_poses"] = Tail(@)]
    /\ Leave(h, ReturnedNone(state'["trajectory_pose_next"] >= Len(state["trajectory_poses"])))
    /\ UNCHANGED << config, robot, tf, hosts, op, goal, npub, last, ticks, nlook, stopped >>

\* move_next lines 331-334
move_next_register(h) ==
    /\ pc[h] = "move_next_register"
    /\ state' = [state EXCEPT !["trajectory_pose_next"] = @ + 1]
    /\ Leave(h, ReturnedNone(state'["trajectory_pose_next"] >= Len(state["trajectory_poses"])))
    /\ UNCHANGED << config, robot, tf, hosts, op, goal, npub, last, ticks, nlook, stopped >>

(***************************************************************************)
(* The other callbacks.                                                    *)
(***************************************************************************)
\* create_pose_list lines 225-233: the transforms of the configured frames other
\* than 'initial_pose', in the order of the list, up to the first exception
RECURSIVE pose_list_tfs(_, _, _, _, _)
pose_list_tfs(cfg, st, tfv, ps, ok) ==
    IF ps = << >> THEN [err |-> "none", val |-> EmptyDict, n |-> 0]
    ELSE IF Head(ps) = "initial_pose" THEN pose_list_tfs(cfg, st, tfv, Tail(ps), ok)
    ELSE LET gt_mode == cfg.localisation # "noisy"
             r == IF gt_mode
                  THEN IF "global_frame" \notin DOMAIN cfg.robot
                       THEN [err |-> "KeyError: global_frame", val |-> NoPose, n |-> 0]
                       ELSE LET l == lookup_transform(tfv, cfg.robot["global_frame"], Head(ps), ok)
                            IN  [err |-> l.err, val |-> l.val, n |-> 1]
                  ELSE get_noisy_pose(st, tfv, Head(ps), ok)
         IN  IF r.err # "none" THEN [err |-> r.err, val |-> EmptyDict, n |-> r.n]
             ELSE LET rest == pose_list_tfs(cfg, st, tfv, Tail(ps), ok)
                  IN  [err |-> rest.err,
                       val |-> IF rest.err # "none" THEN EmptyDict
                               ELSE rest.val @@ (Head(ps) :> r.val),
                       n |-> r.n + rest.n]

\* create_pose_list lines 240-247: the key of the returned entry
pose_list_key(k) == IF k = "left_camera" THEN "camera" ELSE k

\* create_pose_list as a function of what it reads
pose_list(cfg, st, tfv, ans) ==
    LET d == define_initial_pose(cfg, st, tfv, ans)
    IN  IF d.err # "none" THEN [err |-> d.err, val |-> EmptyDict, st |-> d.st, n |-> d.n]
        ELSE IF "poses" \notin DOMAIN cfg.robot
        THEN [err |-> "KeyError: poses", val |-> EmptyDict, st |-> d.st, n |-> d.n]
        ELSE LET t == pose_list_tfs(cfg, d.st, tfv, cfg.robot["poses"], ans.ok_pose)
                 wanted == \E i \in 1..Len(cfg.robot["poses"]) :
                               cfg.robot["poses"][i] = "initial_pose"
             IN  IF t.err # "none"
                 THEN [err |-> t.err, val |-> EmptyDict, st |-> d.st, n |-> d.n + t.n]
                 ELSE IF wanted /\ "initial_pose_tf_mat" \notin DOMAIN d.st
                 THEN [err |-> "KeyError: initial_pose_tf_mat", val |-> EmptyDict,
                       st |-> d.st, n |-> d.n + t.n]
                 ELSE IF "global_frame" \notin DOMAIN cfg.robot
                 THEN [err |-> "KeyError: global_frame", val |-> EmptyDict,
                       st |-> d.st, n |-> d.n + t.n]
                 ELSE LET tfs == IF wanted
                                 THEN ("initial_pose" :> d.st["initial_pose_tf_mat"]) @@ t.val
                                 ELSE t.val
                      IN  [err |-> "none",
                           val |-> [k \in { pose_list_key(f) : f \in DOMAIN tfs } |->
                                      LET f == CHOOSE f \in DOMAIN tfs : pose_list_key(f) = k
                                      IN  [parent_frame |-> cfg.robot["global_frame"],
                                           pose |-> tfs[f]]],
                           st |-> d.st, n |-> d.n + t.n]

\* create_pose_list(data, controller)
create_pose_list(h, ans) ==
    /\ h \in hosts
    /\ pc[h] = "idle"
    /\ LET r == pose_list(config, state, tf, ans)
       IN  /\ Enter(h, "create_pose_list", r.n)
           /\ state' = r.st
           /\ Leave(h, IF r.err # "none" THEN Raised(r.err) ELSE Returned(r.val))
    /\ goal' = [goal EXCEPT ![h] = NoPose]
    /\ UNCHANGED << config, robot, tf, hosts >>

\* a call of _current_pose(controller) on its own
query_current_pose(h, ans) ==
    /\ h \in hosts
    /\ pc[h] = "idle"
    /\ LET r == current_pose(config, state, tf, ans)
       IN  /\ Enter(h, "current_pose", r.n)
           /\ state' = r.st
           /\ Leave(h, IF r.err # "none" THEN Raised(r.err) ELSE Returned(r.val))
    /\ goal' = [goal EXCEPT ![h] = NoPose]
    /\ UNCHANGED << config, robot, tf, hosts >>

(***************************************************************************)
(* The environment: the robot is reported somewhere else.                  *)
(***************************************************************************)
tf_update(frame, pose) ==
    /\ tf[frame] # pose
    /\ tf' = [tf EXCEPT ![frame] = pose]
    /\ UNCHANGED << config, robot, state, hosts, pc, op, goal, npub, last, ticks, nlook, stopped, ret >>

Next ==
    \/ \E h \in Hosts, ans \in PoseAnswers :
          \/ \E data \in AngleData : move_angle(h, data, ans)
          \/ \E data \in DistanceData : move_distance(h, data, ans)
          \/ query_current_pose(h, ans)
          \/ create_pose_list(h, ans)
    \/ \E h \in Hosts, ans \in TickAnswers :
          \/ move_to_pose_tick(h, ans)
          \/ move_to_angle_tick(h, ans)
    \/ \E h \in Hosts :
          \/ move_next(h)
          \/ move_to_angle_exit(h)
          \/ move_to_pose_exit(h)
          \/ move_next_register(h)
    \/ \E frame \in {"map", "odom"} : \E pose \in FramePoses(frame) : tf_update(frame, pose)

Spec == Init /\ [][Next]_vars

(***************************************************************************)
(* Two host threads issuing moves at once.  Nothing in the module keeps a  *)
(* second callback from starting while a first one is in its loop.  Here   *)
(* the tf tree answers every lookup, the episode is clean, and the robot   *)
(* is reported along the way of a move_distance.                           *)
(***************************************************************************)
ConcInit ==
    /\ InitWith(Hosts)
    /\ InName("ground_truth", config.task_name)
    /\ tf = [map |-> <<0, 0, 0>>, odom |-> <<0, 0, 0>>]

ConcPoseAnswers == { a \in PoseAnswers : ~a.dirty /\ a.ok_capture /\ a.ok_pose }
ConcTickAnswers == { a \in TickAnswers : a.ok_capture /\ a.ok_pose /\ (a.dirty <=> a.collided) }

ConcNext ==
    \/ \E h \in Hosts, ans \in ConcPoseAnswers :
          \E data \in DistanceData : move_distance(h, data, ans)
    \/ \E h \in Hosts, ans \in ConcTickAnswers :
          \/ move_to_pose_tick(h, ans)
          \/ move_to_angle_tick(h, ans)
    \/ \E h \in Hosts :
          \/ move_to_angle_exit(h)
          \/ move_to_pose_exit(h)
    \/ \E pose \in MapPoses : tf_update("map", pose)

ConcSpec == ConcInit /\ [][ConcNext]_vars

(***************************************************************************)
(* Configurations with a frame name left out, and with the task name and   *)
(* the localisation field set independently of one another.  The callbacks *)
(* read config['robot'] key by key when they need it.                      *)
(***************************************************************************)
\* the dict d without the key k
Without(d, k) == [x \in DOMAIN d \ {k} |-> d[x]]

\* config['robot'] as loaded: complete, and with the global or the robot frame
\* name left out (the odometry frame is the literal 'odom' of line 128 and no key
\* of the configuration)
RobotConfigs ==
    { RobotConfig, Without(RobotConfig, "global_frame"), Without(RobotConfig, "robot_frame") }

CfgConfigs ==
    { Config(nm, loc, rb, 1) :
        nm \in { <<"semantic_slam", "active", "ground_truth">>,
                 <<"semantic_slam", "active", "dead_reckoning">> },
        loc \in {"ground_truth", "noisy"},
        rb \in RobotConfigs }

CfgInit == Start(CfgConfigs, {"h1"}) /\ robot = Reported

\* every lookup the tf tree is asked for succeeds
CfgPoseAnswers == { a \in PoseAnswers : a.ok_capture /\ a.ok_pose }
CfgTickAnswers == { a \in TickAnswers : a.ok_capture /\ a.ok_pose }

CfgNext ==
    \/ \E h \in Hosts, ans \in CfgPoseAnswers :
          \/ move_angle(h, "angle" :> 90, ans)
          \/ move_distance(h, "distance" :> 1000, ans)
          \/ query_current_pose(h, ans)
          \/ create_pose_list(h, ans)
    \/ \E h \in Hosts, ans \in CfgTickAnswers :
          \/ move_to_pose_tick(h, ans)
          \/ move_to_angle_tick(h, ans)
    \/ \E h \in Hosts :
          \/ move_next(h)
          \/ move_to_angle_exit(h)
          \/ move_to_pose_exit(h)
          \/ move_next_register(h)
    \/ \E pose \in MapPoses : tf_update("map", pose)

CfgSpec == CfgInit /\ [][CfgNext]_vars

(***************************************************************************)
(* Laser scans: encode_laserscan wraps the angle of every range.           *)
(***************************************************************************)
\* angles a scan may start at and step by, in degrees
ScanAngles == {-540, -360, -181, -180, -179, -1, 0, 1, 179, 180, 181, 360, 540}
ScanIncrements == {1, 90, 360}

\* the LaserScan messages the callback is called with
ScanData ==
    { [ranges |-> [i \in 1..n |-> 1000 * i], angle_min |-> a, angle_increment |-> d,
       range_min |-> 100, range_max |-> 10000] :
        n \in 1..MaxRanges, a \in ScanAngles, d \in ScanIncrements }

\* encode_laserscan(data, controller)
encode_laserscan(h, data) ==
    /\ h \in hosts
    /\ pc[h] = "idle"
    /\ Enter(h, "encode_laserscan", 0)
    /\ Leave(h, Returned([scans |-> [i \in 1..Len(data.ranges) |->
                                       << data.ranges[i],
                                          pi_wrap(data.angle_min
                                                    + (i - 1) * data.angle_increment) >>],
                          range_min |-> data.range_min,
                          range_max |-> data.range_max]))
    /\ goal' = [goal EXCEPT ![h] = NoPose]
    /\ UNCHANGED << config, robot, tf, hosts, state >>

ScanNext == \E h \in Hosts, data \in ScanData : encode_laserscan(h, data)

ScanSpec == Init /\ [][ScanNext]_vars

(***************************************************************************)
(* A robot base that obeys the commands.  Between two passes of the drive  *)
(* loop the loop sleeps for 1/MOVE_HZ seconds (line 215) and the base      *)
(* moves with the velocity last published: a linear velocity of v tenths   *)
(* of a millimetre per second carries it 100 v / MOVE_HZ micrometres along *)
(* its heading.  The tf tree reports the position in whole millimetres and *)
(* robot.frac keeps the rest.  The move is a move_distance of one length   *)
(* unit in a clean episode, with every lookup answered and no collision.   *)
(***************************************************************************)
FollowConfigs == { c \in Configs : c.trajectory_poses # << >> }

FollowInit ==
    /\ Start(FollowConfigs, {"h1"})
    /\ tf = [map |-> <<0, 0, 0>>, odom |-> <<0, 0, 0>>]
    /\ robot = Following

FollowAnswers == { a \in Answers : ~a.collided /\ ~a.dirty /\ a.ok_capture /\ a.ok_pose }

\* hz_rate.sleep() of _move_to_pose, line 215, with the base facing along x and
\* turning at rate 0
follow(h) ==
    /\ robot.follows
    /\ pc[h] = "move_to_pose"
    /\ robot.applied < npub[h]
    /\ last[h].angular_z = 0
    /\ tf["map"][3] = 0
    /\ LET total == 1000 * tf["map"][1] + robot.frac + (100 * last[h].linear_x) \div MOVE_HZ
           step == total \div 1000 - tf["map"][1]
       IN  /\ robot' = [robot EXCEPT !.frac = total % 1000, !.applied = npub[h]]
           /\ tf' = [map |-> << tf["map"][1] + step, tf["map"][2], tf["map"][3] >>,
                     odom |-> << tf["odom"][1] + step, tf["odom"][2], tf["odom"][3] >>]
    /\ UNCHANGED << config, state, hosts, pc, op, goal, npub, last, ticks, nlook, stopped, ret >>

\* the steps of the loop thread and of the base
FollowRun ==
    \E h \in Hosts :
        \/ \E ans \in FollowAnswers :
              \/ robot.applied = npub[h] /\ move_to_pose_tick(h, ans)
              \/ move_to_angle_tick(h, ans)
        \/ move_to_angle_exit(h)
        \/ move_to_pose_exit(h)
        \/ follow(h)

FollowNext ==
    \/ \E h \in Hosts, ans \in FollowAnswers :
          op[h] = "none" /\ move_distance(h, "distance" :> 1000, ans)
    \/ FollowRun

\* the loop thread keeps running and the sleep returns
FollowSpec == FollowInit /\ [][FollowNext]_vars /\ WF_vars(FollowRun)

(***************************************************************************)
(* Properties.                                                             *)
(***************************************************************************)
MoveOps == {"move_angle", "move_distance", "move_next"}

\* host h is inside _move_to_pose (or the _move_to_angle it called)
InMove(h) == pc[h] \in {"move_to_pose", "move_to_angle", "angle_exit", "pose_exit"}

\* _move_to_pose has returned normally into the callback of host h
MoveReturned(h) ==
    /\ op[h] \in MoveOps
    /\ \/ pc[h] = "move_next_register"
       \/ pc[h] = "idle" /\ ret[h].kind = "returned"

\* C1: a servo loop that returns normally, by tolerance or by collision, leaves
\* through a step that publishes the zero Twist as its last command: the return
\* step of _move_to_angle and of _move_to_pose each publish exactly one more
\* command, it is zero, and once _move_to_pose has returned the last command of
\* the move is still that zero.
C1_ZeroOnNormalExit ==
    [][ \A h \in Hosts :
          /\ (pc[h] \in {"angle_exit", "pose_exit"} /\ pc'[h] # pc[h])
                => (npub'[h] = npub[h] + 1 /\ last'[h] = ZeroTwist)
          /\ (InMove(h) /\ MoveReturned(h)')
                => (npub'[h] >= 1 /\ last'[h] = ZeroTwist) ]_vars

\* a move that published nonzero commands, reached the goal and returned
C1_Witness ==
    \E h \in Hosts :
        /\ MoveReturned(h) /\ pc[h] = "idle" /\ ~stopped[h]
        /\ npub[h] >= 3 /\ last[h] = ZeroTwist

\* a move that published a nonzero command and was ended by the collision signal
C1_WitnessCollided ==
    \E h \in Hosts :
        /\ MoveReturned(h) /\ pc[h] = "idle" /\ stopped[h]
        /\ npub[h] >= 2 /\ last[h] = ZeroTwist

\* C2 (as claimed): when a transform lookup raises during a move that has
\* published commands, the last command published is the zero Twist.
C2_ZeroOnLookupError ==
    \A h \in Hosts :
        (op[h] \in MoveOps /\ ret[h].kind = "raised" /\ ret[h].exc = "LookupException"
            /\ npub[h] >= 1)
        => last[h] = ZeroTwist

C4_StopsOnCollision ==
    [][ \A h \in Hosts :
          (stopped'[h] /\ pc[h] # "idle")
          => /\ nlook'[h] = nlook[h]
             /\ state' = state \/ pc[h] = "move_next_register"
             /\ npub'[h] # npub[h] => (npub'[h] = npub[h] + 1 /\ last'[h] = ZeroTwist)
             /\ pc'[h] \in {"angle_exit", "pose_exit", "move_next_register", "idle"}
             /\ pc[h] = "move_to_pose" => pc'[h] = "pose_exit"
             /\ pc[h] = "move_to_angle" => pc'[h] = "angle_exit"
             /\ (pc[h] = "pose_exit" /\ pc'[h] # pc[h])
                   => (npub'[h] = npub[h] + 1 /\ last'[h] = ZeroTwist) ]_vars

\* an orientation phase, entered after a nonzero drive command, that was ended by
\* the collision signal and has published its zero Twist
C4_Witness ==
    \E h \in Hosts :
        /\ pc[h] = "pose_exit" /\ stopped[h]
        /\ ticks[h] >= 3 /\ npub[h] >= 2 /\ last[h] = ZeroTwist

\* the trajectory cursor, 0 until move_next has set it up
Cursor(st) == IF "trajectory_pose_next" \in DOMAIN st THEN st["trajectory_pose_next"] ELSE 0

\* the pose that configured waypoint number i (from 0) denotes
WaypointPose(i) == << 1000 * (i + 1), 0, IF (i + 1) % 2 = 0 THEN 2 ELSE 0 >>

\* this step is host h calling callback o (or a call that changes nothing)
CallStep(h, o) ==
    /\ pc[h] = "idle" /\ h \in hosts
    /\ op'[h] = o
    /\ tf' = tf
    /\ \A g \in Hosts \ {h} :
          /\ pc'[g] = pc[g] /\ op'[g] = op[g] /\ ret'[g] = ret[g]
          /\ npub'[g] = npub[g] /\ ticks'[g] = ticks[g] /\ nlook'[g] = nlook[g]

C6_ExhaustedReported ==
    [][ \A h \in Hosts :
          (CallStep(h, "move_next") /\ Cursor(state) = Len(config.trajectory_poses))
          => /\ pc'[h] = "idle"
             /\ ret'[h].kind = "returned" /\ ret'[h].val = "exhausted"
             /\ nlook'[h] = 0 /\ npub'[h] = 0
             /\ state' = state ]_vars

\* C7: once 'initial_pose_tf_mat' is in the session state, no step changes or
\* removes it, whatever the tf tree reports and whatever is_dirty() answers.
C7_InitialPoseFixed ==
    [][ "initial_pose_tf_mat" \in DOMAIN state
          => /\ "initial_pose_tf_mat" \in DOMAIN state'
             /\ state'["initial_pose_tf_mat"] = state["initial_pose_tf_mat"] ]_vars

\* a callback that ran its lookups after the capture, with the global frame now
\* reporting another pose than the captured one
C7_Witness ==
    \E h \in Hosts :
        /\ "initial_pose_tf_mat" \in DOMAIN state
        /\ state["initial_pose_tf_mat"] # tf["map"]
        /\ op[h] = "current_pose" /\ ret[h].kind = "returned" /\ nlook[h] = 1
        /\ InName("ground_truth", config.task_name)
        /\ ret[h].out = tf["map"]

\* C8 (as claimed): no callback that asks for the current pose ever fails on an
\* unset initial pose.
C8_InitialPoseCaptured ==
    \A h \in Hosts :
        ~ /\ op[h] \in MoveOps \cup {"current_pose"}
          /\ ret[h].kind = "raised"
          /\ ret[h].exc = "KeyError: initial_pose_tf_mat"

\* C9: a _current_pose call that returns, returns the global-frame lookup when
\* 'ground_truth' is in the task name, and otherwise the captured initial pose
\* times the odometry-frame lookup.
C9_CurrentPoseByMode ==
    [][ \A h \in Hosts :
          (CallStep(h, "current_pose") /\ ret'[h].kind = "returned")
          => ret'[h].out = IF InName("ground_truth", config.task_name)
                           THEN tf["map"]
                           ELSE matmul(state'["initial_pose_tf_mat"], tf["odom"]) ]_vars

\* a noisy-mode answer that is neither lookup, given after the global frame moved
\* away from the captured pose
C9_Witness ==
    \E h \in Hosts :
        /\ ~InName("ground_truth", config.task_name)
        /\ op[h] = "current_pose" /\ ret[h].kind = "returned" /\ nlook[h] = 1
        /\ "initial_pose_tf_mat" \in DOMAIN state
        /\ state["initial_pose_tf_mat"] # tf["map"]
        /\ ret[h].out = matmul(state["initial_pose_tf_mat"], tf["odom"])
        /\ ret[h].out \notin {tf["map"], tf["odom"], state["initial_pose_tf_mat"]}

\* host h is in a move that has published a command and not yet returned
Writing(h) == InMove(h) /\ npub[h] >= 1

\* C10 (as claimed): while one move is between its first command and its return,
\* no other move publishes a command.
C10_SingleWriter ==
    [][ \A h \in Hosts :
          (InMove(h) /\ npub'[h] = npub[h] + 1)
          => \A g \in Hosts \ {h} : ~Writing(g) ]_vars

\* C11: a transform lookup that fails during a move is raised to the caller at
\* once.  A pass of a loop that made a lookup and stays in its loop has published
\* its command (a failed lookup is not passed over and tried again); the step in
\* which LookupException is raised ends the callback, publishes nothing and makes
\* no lookup after the failed one; and from then on, while the caller makes no new
\* call, the move takes no further pass, makes no lookup and publishes nothing.
C11_LookupErrorPropagates ==
    [][ \A h \in Hosts :
          /\ (pc[h] \in {"move_to_pose", "move_to_angle"} /\ pc'[h] = pc[h]
                /\ nlook'[h] > nlook[h])
                => npub'[h] = npub[h] + 1
          /\ (op'[h] \in MoveOps /\ ret'[h].kind = "raised" /\ ret'[h].exc = "LookupException"
                /\ ret[h].kind = "running")
                => /\ pc'[h] = "idle"
                   /\ npub'[h] = npub[h] /\ last'[h] = last[h]
                   /\ nlook'[h] \in {nlook[h] + 1, nlook[h] + 2}
                   /\ ticks'[h] = ticks[h] + 1
          /\ (op[h] \in MoveOps /\ ret[h].kind = "raised" /\ ret[h].exc = "LookupException")
                => /\ pc[h] = "idle"
                   /\ tf' # tf => /\ pc'[h] = "idle" /\ ret'[h] = ret[h]
                                  /\ nlook'[h] = nlook[h] /\ npub'[h] = npub[h]
                                  /\ last'[h] = last[h] /\ ticks'[h] = ticks[h] ]_vars

\* a move that published a command, then met a failed lookup in a later pass
C11_Witness ==
    \E h \in Hosts :
        /\ op[h] \in MoveOps /\ pc[h] = "idle"
        /\ ret[h].kind = "raised" /\ ret[h].exc = "LookupException"
        /\ ticks[h] >= 2 /\ npub[h] >= 1 /\ last[h] # ZeroTwist

\* the frame names the callbacks read from the configuration
FrameKeys == {"global_frame", "robot_frame"}

\* the pose _current_pose returns in this step when it returns one
PoseRead == IF InName("ground_truth", config.task_name) THEN tf["map"]
            ELSE matmul(state'["initial_pose_tf_mat"], tf["odom"])

\* C12 (as claimed): with the global or the robot frame name absent from the
\* configuration, a move publishes no command and its callback ends by raising;
\* with both present and only the speed factor absent, the drive command is
\* computed with speed factor 1.
C12_MissingFrameFailsFast ==
    [][ \A h \in Hosts :
          /\ (op'[h] \in MoveOps /\ ~(FrameKeys \subseteq DOMAIN config.robot))
                => /\ npub'[h] = 0
                   /\ pc'[h] = "idle" => ret'[h].kind = "raised"
          /\ (FrameKeys \subseteq DOMAIN config.robot /\ "speed_factor" \notin DOMAIN config.robot
                /\ pc[h] = "move_to_pose" /\ npub'[h] = npub[h] + 1)
                => Abs(last'[h].linear_x)
                     = MOVE_POSE_K_RHO * dist_from_a_to_b(PoseRead, goal[h]) ]_vars

\* C20 (as claimed): create_pose_list and _current_pose work in the same
\* localisation mode under every configuration: the camera pose a create_pose_list
\* call returns is the camera mount seen from the pose _current_pose returns.
C20_ModesAgree ==
    [][ \A h \in Hosts :
          (CallStep(h, "create_pose_list") /\ ret'[h].kind = "returned")
          => ret'[h].out["camera"].pose = matmul(PoseRead, CameraMount) ]_vars

\* the angle of range number i (from 1) of the scan data, before wrapping
ScanAngle(data, i) == data.angle_min + (i - 1) * data.angle_increment

Wrapped(x) == LET m == x % 360 IN IF m >= 180 THEN m - 360 ELSE m

\* host h publishes the command of a drive-phase tick in this step
DriveTick(h) == pc[h] = "move_to_pose" /\ pc'[h] = "move_to_pose" /\ npub'[h] = npub[h] + 1

\* the bearing of the goal of host h in the frame of the pose read in this step
BearingRelative(h) ==
    LET rel == matmul(inv(PoseRead), goal[h])
    IN  arctan2(rel[2], rel[1])

\* C14: the command a drive-phase tick publishes has a negative linear velocity
\* exactly when the bearing of the goal in the robot's own frame is beyond a
\* quarter turn, and a positive one otherwise; on those reverse ticks the angular
\* velocity is computed from alpha and beta each wrapped and then shifted by half
\* a turn (and wrapped), on the other ticks from alpha and beta wrapped only; a
\* goal exactly behind the robot gets a negative linear velocity.
C14_ReverseWhenBehind ==
    [][ \A h \in Hosts :
          DriveTick(h)
          => LET b == BearingRelative(h)
                 ang == arctan2(goal[h][2] - PoseRead[2], goal[h][1] - PoseRead[1])
                 alpha == Wrapped(ang - EulerZ(PoseRead[3]))
                 beta == Wrapped(EulerZ(goal[h][3]) - ang)
                 k == move_speed_factor(config)
             IN  /\ k > 0
                 /\ last'[h].linear_x # 0
                 /\ last'[h].linear_x < 0 <=> Abs(b) > 90
                 /\ Abs(b) > 90
                       => last'[h].angular_z
                            = k * (MOVE_POSE_K_ALPHA * Wrapped(alpha + 180)
                                     + MOVE_POSE_K_BETA * Wrapped(beta + 180))
                 /\ Abs(b) <= 90
                       => last'[h].angular_z
                            = k * (MOVE_POSE_K_ALPHA * alpha + MOVE_POSE_K_BETA * beta)
                 /\ b = 180 => last'[h].linear_x < 0 ]_vars

\* a drive tick has just commanded a reverse towards a goal exactly behind the
\* robot
C14_Witness ==
    \E h \in Hosts :
        /\ pc[h] = "move_to_pose" /\ npub[h] >= 1 /\ last[h].linear_x < 0
        /\ InName("ground_truth", config.task_name)
        /\ LET rel == matmul(inv(tf["map"]), goal[h])
           IN  rel[2] = 0 /\ rel[1] < 0
        /\ last[h].linear_x
             = -move_speed_factor(config) * MOVE_POSE_K_RHO * dist_from_a_to_b(tf["map"], goal[h])

\* the move of host h with the obeying base has a step to take: the base has
\* the last command still to obey and can obey it, or the loop can take its next
\* pass (a pass that publishes is followed only up to TickCap commands)
CanStep(h) ==
    \/ pc[h] \in {"angle_exit", "pose_exit"}
    \/ /\ pc[h] = "move_to_pose"
       /\ robot.applied < npub[h]
       /\ last[h].angular_z = 0 /\ tf["map"][3] = 0
    \/ /\ pc[h] = "move_to_pose"
       /\ robot.applied = npub[h]
       /\ dist_from_a_to_b(tf["map"], goal[h]) < MOVE_TOL_DIST \/ npub[h] < TickCap
    \/ /\ pc[h] = "move_to_angle"
       /\ Abs(yaw_b_wrt_a(tf["map"], goal[h])) < MOVE_TOL_YAW \/ npub[h] < TickCap

\* C15: with the goal one length unit straight ahead and of the same heading, no
\* collision, and a base that obeys each command for one period of the 20 Hz
\* loop: every command of the drive loop has a positive linear velocity and no
\* angular velocity; the move takes no more than 133 samples of is_collided() in
\* all (132 passes of the drive loop, the last of which finds the distance below
\* the tolerance, and one of the orientation loop); once the drive loop is left
\* the base is within the tolerance of the goal; and the move is never stuck: as
\* long as it has not returned, the loop or the base has a step to take, so
\* within that bound it returns.
C15_AheadConverges ==
    \A h \in Hosts :
        op[h] = "move_distance"
        => /\ goal[h] = <<1000, 0, 0>>
           /\ ticks[h] <= 133
           /\ (pc[h] = "move_to_pose" /\ npub[h] >= 1)
                 => (last[h].linear_x > 0 /\ last[h].angular_z = 0)
           /\ pc[h] = "move_to_pose"
                 => (tf["map"][1] < 1000 /\ tf["map"][2] = 0 /\ tf["map"][3] = 0)
           /\ pc[h] # "move_to_pose"
                 => /\ dist_from_a_to_b(tf["map"], goal[h]) < MOVE_TOL_DIST
                    /\ ret[h].kind # "raised"
           /\ pc[h] # "idle" => CanStep(h)
           /\ pc[h] = "idle" => (ret[h].kind = "returned" /\ last[h] = ZeroTwist)

\* the move has returned after more than a hundred passes, at speed factor 1
C15_Witness ==
    \E h \in Hosts :
        /\ op[h] = "move_distance" /\ pc[h] = "idle" /\ ret[h].kind = "returned"
        /\ move_speed_factor(config) = DEFAULT_SPEED_FACTOR
        /\ ticks[h] > 100 /\ npub[h] = ticks[h]
        /\ tf["map"][1] > 990

\* C16: the phases of one _move_to_pose come in the order drive, orientation,
\* exit.  The drive loop hands over to the orientation loop only in a pass that
\* read a distance below the tolerance, and publishes nothing in that pass; from
\* then on the move never goes back to the drive loop, whatever distance the tf
\* tree reports later, and every command it publishes has linear velocity 0; when
\* the orientation loop ends, the move publishes its zero commands and returns
\* without another sample of is_collided() or another lookup.
C16_PhaseOrder ==
    [][ \A h \in Hosts :
          /\ (pc[h] = "move_to_pose" /\ pc'[h] = "move_to_angle")
                => /\ dist_from_a_to_b(PoseRead, goal[h]) < MOVE_TOL_DIST
                   /\ npub'[h] = npub[h]
          /\ pc[h] \in {"move_to_angle", "angle_exit", "pose_exit"}
                => /\ pc'[h] # "move_to_pose"
                   /\ npub'[h] # npub[h]
                         => (npub'[h] = npub[h] + 1 /\ last'[h].linear_x = 0)
          /\ pc[h] = "move_to_angle"
                => /\ pc'[h] \in {"move_to_angle", "angle_exit", "idle"}
                   /\ pc'[h] = "idle" => ret'[h].kind = "raised"
          /\ pc[h] = "angle_exit"
                => /\ pc'[h] \in {"angle_exit", "pose_exit"}
                   /\ ticks'[h] = ticks[h] /\ nlook'[h] = nlook[h]
          /\ pc[h] = "pose_exit"
                => /\ pc'[h] \in {"pose_exit", "move_next_register", "idle"}
                   /\ ticks'[h] = ticks[h] /\ nlook'[h] = nlook[h]
                   /\ pc'[h] = "idle" => ret'[h].kind = "returned" ]_vars

\* the orientation loop has published a turning command and the robot is now
\* reported further from the goal than the tolerance
C16_Witness ==
    \E h \in Hosts :
        /\ pc[h] = "move_to_angle" /\ npub[h] >= 1
        /\ last[h].linear_x = 0 /\ last[h].angular_z # 0
        /\ InName("ground_truth", config.task_name)
        /\ dist_from_a_to_b(tf["map"], goal[h]) >= MOVE_TOL_DIST

\* the part of the session state the trajectory sequencer owns
TrajectoryPart(st) ==
    [k \in DOMAIN st \cap {"trajectory_pose_next", "trajectory_poses"} |-> st[k]]

\* C17: a step of move_angle or move_distance, from the call to the return, and
\* every step inside _move_to_pose, leaves the trajectory cursor and the waypoint
\* list as they are (absent when absent); once move_next has loaded the waypoint
\* list, no step changes or removes it; and no step of a move changes a captured
\* initial pose.
C17_OwnersOnly ==
    [][ \A h \in Hosts :
          /\ (\/ CallStep(h, "move_angle") \/ CallStep(h, "move_distance")
              \/ op[h] \in {"move_angle", "move_distance"} /\ pc[h] # "idle"
              \/ InMove(h))
                => TrajectoryPart(state') = TrajectoryPart(state)
          /\ "trajectory_poses" \in DOMAIN state
                => /\ "trajectory_poses" \in DOMAIN state'
                   /\ state'["trajectory_poses"] = state["trajectory_poses"]
          /\ (op'[h] \in MoveOps /\ "initial_pose_tf_mat" \in DOMAIN state)
                => /\ "initial_pose_tf_mat" \in DOMAIN state'
                   /\ state'["initial_pose_tf_mat"] = state["initial_pose_tf_mat"] ]_vars

\* a move_distance that ran its loop and returned after move_next had advanced the
\* cursor and the initial pose had been captured elsewhere than the robot is now
C17_Witness ==
    \E h \in Hosts :
        /\ op[h] = "move_distance" /\ pc[h] = "idle" /\ ret[h].kind = "returned"
        /\ npub[h] >= 2 /\ nlook[h] >= 2
        /\ Cursor(state) = 1 /\ "trajectory_poses" \in DOMAIN state
        /\ Len(state["trajectory_poses"]) = MaxWaypoints
        /\ "initial_pose_tf_mat" \in DOMAIN state
        /\ state["initial_pose_tf_mat"] # tf["map"]

\* C18: once move_next has set the cursor up, the cursor and the waypoint list
\* stay in the session state, the cursor is at least 0 and at most the length of
\* the list, and a step leaves the cursor as it is or adds exactly 1 to it; the
\* cursor is set up as 0.
C18_CursorBounds ==
    [][ /\ "trajectory_pose_next" \in DOMAIN state
           => /\ "trajectory_poses" \in DOMAIN state
              /\ state["trajectory_pose_next"] >= 0
              /\ state["trajectory_pose_next"] <= Len(state["trajectory_poses"])
              /\ "trajectory_pose_next" \in DOMAIN state'
              /\ "trajectory_poses" \in DOMAIN state'
              /\ state'["trajectory_pose_next"]
                   \in {state["trajectory_pose_next"], state["trajectory_pose_next"] + 1}
              /\ state'["trajectory_pose_next"] <= Len(state'["trajectory_poses"])
        /\ ("trajectory_pose_next" \notin DOMAIN state
              /\ "trajectory_pose_next" \in DOMAIN state')
           => state'["trajectory_pose_next"] = 0 ]_vars

\* the move_next call that used the last waypoint has returned, and logged that
\* the poses have run out
C18_Witness ==
    \E h \in Hosts :
        /\ op[h] = "move_next" /\ pc[h] = "idle"
        /\ ret[h].kind = "returned" /\ ret[h].logerr
        /\ "trajectory_pose_next" \in DOMAIN state
        /\ state["trajectory_pose_next"] = MaxWaypoints
        /\ Len(state["trajectory_poses"]) = MaxWaypoints

=============================================================================
